---- MODULE Spec2Model ----
(***************************************************************************)
(* GPUTune (src/main.cpp): GPUMonitor (device registry, telemetry polling, *)
(* tuning writes through NVML) and the parts of GPUTuneApp that hold       *)
(* domain state: the selected device, the staged tuning targets that live  *)
(* inside GPUInfo, the Success/Error popup and the history ring buffer of  *)
(* drawPerformanceGraphs.  One frame of GPUTuneApp::run is the sequence of *)
(* steps  events -> update -> menu -> monitoring -> tuning -> graphs ->    *)
(* sysinfo.  The vendor library and the operator are the environment.      *)
(***************************************************************************)
EXTENDS Integers, Sequences, FiniteSets, TLC

(* ------------------------------ bounds --------------------------------- *)
\* frames of GPUTuneApp::run explored by Spec
MaxFrames == 2
\* frames explored by SpecHist (the ring buffer wraps after HistorySize pushes)
MaxHistFrames == 103
\* hardware devices the vendor library can report
MaxHw == 2
\* vendor calls that may fail over one run (after a successful nvmlInit)
MaxFaults == 1
\* slider edits the operator makes over one run
MaxEdits == 1
\* SpecHist: the one-second timer of render() elapses every PollEvery-th frame
PollEvery == 2

(* ------------------------- program constants --------------------------- *)
\* std::vector<float> temp_history(100, 0.0f)
HistorySize == 100
\* memory.used / (1024 * 1024)
BytesPerMB == 1048576
\* power / 1000
MilliPerUnit == 1000
\* int target_power_limit = 100
DefaultPowerPct == 100
\* SliderInt("Power Limit (%)", ..., 50, 120)
PowerPctMin == 50
PowerPctMax == 120
\* SliderInt(..., gpu.core_clock - 200, gpu.core_clock + 200)
CoreClockSpan == 200
\* SliderInt(..., gpu.memory_clock - 500, gpu.memory_clock + 500)
MemClockSpan == 500
\* SliderInt("", &gpu.target_fan_curve[i], 0, 100)
FanPctMax == 100
\* largest magnitude below which every int is exactly representable as float
FloatExact == 16777216

Platforms == {"win32", "apple", "other"}

(* --------------------------- the environment --------------------------- *)
\* The reads of updateGPUInfo, in source order.  "memory" fills memory_used
\* and memory_total, "utilization" fills gpu_utilization and
\* memory_utilization.
ReadGroups == <<"temperature", "memory", "utilization", "power_usage",
                "power_limit", "core_clock", "memory_clock", "fan_speed">>

ReadGroupSet == {ReadGroups[k] : k \in 1..Len(ReadGroups)}

\* What the hardware device with index h reports in frame n, in raw vendor
\* units (bytes, milliwatts, MHz, degrees, percent).  The readings differ
\* between devices and drift from frame to frame.
HwRaw(h, n) ==
    [ temperature  |-> 60 + 10 * h + n,
      mem_used     |-> (100 + 50 * h + n) * BytesPerMB + 524288,
      mem_total    |-> 1024 * BytesPerMB,
      util_gpu     |-> 50 + h,
      util_mem     |-> 20 + h,
      power        |-> (150 + 10 * h + n) * MilliPerUnit + 500,
      power_limit  |-> (250 + 50 * h) * MilliPerUnit,
      core_clock   |-> 1500 + 100 * h + n,
      mem_clock    |-> 7000 + 100 * h + n,
      fan          |-> 40 + h ]

\* nvmlDeviceGetName of hardware device h
HwName(h) == <<"GPU0", "GPU1", "GPU2", "GPU3">>[h + 1]

\* what an uninitialised name buffer may hold
GarbageNames == {"?"} \cup {HwName(h) : h \in 0..(MaxHw - 1)}

\* nvmlSystemGetDriverVersion
DriverVersion == "535.98"

\* what an uninitialised version buffer may hold
GarbageVersions == {"?", DriverVersion}

\* A point where a vendor call can fail: k is the call, d the hardware
\* index passed to nvmlDeviceGetHandleByIndex (or -1), f the read group.
FaultPoint(k, d, f) == [k |-> k, d |-> d, f |-> f]

\* all subsets of P with at most k elements
RECURSIVE UpTo(_, _)
UpTo(P, k) ==
    IF k <= 0 THEN {{}}
    ELSE LET S == UpTo(P, k - 1) IN S \cup {s \cup {p} : s \in S, p \in P}

(* ------------------------------ GPUInfo -------------------------------- *)
\* class GPUInfo with its member initialisers.  hw is not a member: it is
\* the hardware index the entry was enumerated from (-1: none).
NewGPUInfo ==
    [ name |-> "", driver_version |-> "", hw |-> -1,
      temperature |-> 0, memory_used |-> 0, memory_total |-> 0,
      gpu_utilization |-> 0, memory_utilization |-> 0,
      power_usage |-> 0, power_limit |-> 0,
      core_clock |-> 0, memory_clock |-> 0, fan_speed |-> 0,
      is_nvidia |-> FALSE,
      target_core_clock |-> 0, target_memory_clock |-> 0,
      target_fan_curve |-> <<30, 40, 50, 70, 85>>,
      target_power_limit |-> DefaultPowerPct ]

\* the members one read of updateGPUInfo assigns
GroupFields(f) ==
    CASE f = "temperature"  -> {"temperature"}
      [] f = "memory"       -> {"memory_used", "memory_total"}
      [] f = "utilization"  -> {"gpu_utilization", "memory_utilization"}
      [] f = "power_usage"  -> {"power_usage"}
      [] f = "power_limit"  -> {"power_limit"}
      [] f = "core_clock"   -> {"core_clock"}
      [] f = "memory_clock" -> {"memory_clock"}
      [] f = "fan_speed"    -> {"fan_speed"}

TelemetryFields == UNION {GroupFields(f) : f \in ReadGroupSet}

TargetFields == {"target_core_clock", "target_memory_clock",
                 "target_fan_curve", "target_power_limit"}

\* the staged tuning target held inside a GPUInfo
TargetOf(gpu) == [x \in TargetFields |-> gpu[x]]

\* the telemetry held inside a GPUInfo
TelemetryOf(gpu) == [x \in TelemetryFields |-> gpu[x]]

(* --------------------------- GPUMonitor -------------------------------- *)
\* one entry of the log of vendor calls a step issued
Call(fn, h, ok, arg) == [fn |-> fn, hw |-> h, ok |-> ok, arg |-> arg]

NoArg == <<>>

\* nvmlDeviceGetHandleByIndex(h) succeeds for an existing device unless the
\* environment makes it fail
HandleOK(h, hwc, fs) == h < hwc /\ FaultPoint("handle", h, "-") \notin fs

ReadOK(h, f, fs) == FaultPoint("read", h, f) \notin fs

\* the assignments under one successful read of updateGPUInfo, with the
\* unit conversions of the source (integer division)
Assign(gpu, f, raw) ==
    CASE f = "temperature"  -> [gpu EXCEPT !.temperature = raw.temperature]
      [] f = "memory"       ->
            [gpu EXCEPT !.memory_used  = raw.mem_used \div BytesPerMB,
                        !.memory_total = raw.mem_total \div BytesPerMB]
      [] f = "utilization"  ->
            [gpu EXCEPT !.gpu_utilization    = raw.util_gpu,
                        !.memory_utilization = raw.util_mem]
      [] f = "power_usage"  ->
            [gpu EXCEPT !.power_usage = raw.power \div MilliPerUnit]
      [] f = "power_limit"  ->
            [gpu EXCEPT !.power_limit = raw.power_limit \div MilliPerUnit]
      [] f = "core_clock"   -> [gpu EXCEPT !.core_clock = raw.core_clock]
      [] f = "memory_clock" -> [gpu EXCEPT !.memory_clock = raw.mem_clock]
      [] f = "fan_speed"    -> [gpu EXCEPT !.fan_speed = raw.fan]

\* a reading of all zeroes
ZeroRaw == [x \in DOMAIN HwRaw(0, 0) |-> 0]

StoreReadZeroOnFailure(gpu, f, raw, ok) ==
    IF ok THEN Assign(gpu, f, raw) ELSE Assign(gpu, f, ZeroRaw)

\* if (nvmlDeviceGet...(device, &v) == NVML_SUCCESS) { gpu.field = v; }
StoreRead(gpu, f, raw, ok) ==
    IF ok THEN Assign(gpu, f, raw) ELSE gpu

RECURSIVE UpdateFrom(_, _, _, _, _)
UpdateFrom(gpu, h, fs, n, k) ==
    IF k > Len(ReadGroups) THEN gpu
    ELSE UpdateFrom(StoreRead(gpu, ReadGroups[k], HwRaw(h, n),
                              ReadOK(h, ReadGroups[k], fs)),
                    h, fs, n, k + 1)

\* GPUMonitor::updateGPUInfo(gpu, device, index): device is the handle of
\* hardware device h; compiled to nothing outside _WIN32
updateGPUInfo(gpu, h, fs, n, plat, init) ==
    IF plat # "win32" \/ ~init THEN gpu ELSE UpdateFrom(gpu, h, fs, n, 1)

\* the vendor calls of one updateGPUInfo
updateGPUInfoCalls(h, fs, plat, init) ==
    IF plat # "win32" \/ ~init THEN <<>>
    ELSE [k \in 1..Len(ReadGroups) |->
            Call("read", h, ReadOK(h, ReadGroups[k], fs), ReadGroups[k])]

\* what the unchecked nvmlDeviceGetName / nvmlSystemGetDriverVersion leave
\* in their buffers: the value on success, whatever the buffer held (garb)
\* on failure
BufferAfter(value, ok, garbage) == IF ok THEN value ELSE garbage

\* the body of the enumeration loop of detectGPUs for hardware index i,
\* when the handle was obtained
DetectOne(i, fs, garb, n, plat, init) ==
    updateGPUInfo(
        [NewGPUInfo EXCEPT
            !.is_nvidia = TRUE,
            !.hw = i,
            !.name = BufferAfter(HwName(i),
                                 FaultPoint("name", i, "-") \notin fs,
                                 garb.name),
            !.driver_version = BufferAfter(DriverVersion,
                                 FaultPoint("driver", i, "-") \notin fs,
                                 garb.version)],
        i, fs, n, plat, init)

DetectOneCalls(i, fs, plat, init) ==
    << Call("name", i, FaultPoint("name", i, "-") \notin fs, NoArg),
       Call("driver", i, FaultPoint("driver", i, "-") \notin fs, NoArg) >>
    \o updateGPUInfoCalls(i, fs, plat, init)

RECURSIVE DetectFrom(_, _, _, _, _, _, _, _)
DetectFrom(i, acc, fs, garb, n, plat, init, hwc) ==
    IF i >= hwc THEN acc
    ELSE LET ok == HandleOK(i, hwc, fs)
             h  == <<Call("handle", i, ok, NoArg)>>
         IN  DetectFrom(i + 1,
                 IF ok
                 THEN [gpus  |-> Append(acc.gpus,
                                   DetectOne(i, fs, garb, n, plat, init)),
                       calls |-> acc.calls \o h
                                   \o DetectOneCalls(i, fs, plat, init)]
                 ELSE [acc EXCEPT !.calls = acc.calls \o h],
                 fs, garb, n, plat, init, hwc)

NoDevices == [gpus |-> <<>>, calls |-> <<>>]

\* detectGPUs, the body of if (nvml_initialized): nvmlDeviceGetCount and
\* the loop over the hardware indices
EnumerateNVML(fs, garb, n, plat, init, hwc) ==
    LET ok == FaultPoint("count", -1, "-") \notin fs
        c  == <<Call("count", -1, ok, NoArg)>>
    IN  IF ok
        THEN DetectFrom(0, [gpus |-> <<>>, calls |-> c],
                        fs, garb, n, plat, init, hwc)
        ELSE [gpus |-> <<>>, calls |-> c]

\* detectGPUs, the __APPLE__ branch: hwc is 1 when
\* MTLCreateSystemDefaultDevice returns a device
DetectMetal(hwc) ==
    IF hwc > 0
    THEN [gpus  |-> <<[NewGPUInfo EXCEPT !.name = "Apple GPU",
                                         !.hw = 0,
                                         !.is_nvidia = FALSE]>>,
          calls |-> <<>>]
    ELSE NoDevices

detectGPUsUnguarded(fs, garb, n, plat, init, hwc) ==
    CASE plat = "win32" -> EnumerateNVML(fs, garb, n, plat, init, hwc)
      [] plat = "apple" -> DetectMetal(hwc)
      [] OTHER -> NoDevices

\* GPUMonitor::detectGPUs: the new device vector and the vendor calls made
detectGPUs(fs, garb, n, plat, init, hwc) ==
    CASE plat = "win32" ->
            IF init THEN EnumerateNVML(fs, garb, n, plat, init, hwc)
            ELSE NoDevices
      [] plat = "apple" -> DetectMetal(hwc)
      [] OTHER -> NoDevices

RECURSIVE UpdateAllFrom(_, _, _, _, _, _, _)
UpdateAllFrom(i, acc, fs, n, plat, init, hwc) ==
    IF i >= Len(acc.gpus) THEN acc
    ELSE LET ok == HandleOK(i, hwc, fs)
             h  == <<Call("handle", i, ok, NoArg)>>
         IN  UpdateAllFrom(i + 1,
                 IF ok
                 THEN [gpus   |-> [acc.gpus EXCEPT ![i + 1] =
                                     updateGPUInfo(@, i, fs, n, plat, init)],
                       calls  |-> acc.calls \o h
                                     \o updateGPUInfoCalls(i, fs, plat, init),
                       polled |-> acc.polled \cup {i + 1}]
                 ELSE [acc EXCEPT !.calls = acc.calls \o h],
                 fs, n, plat, init, hwc)

\* GPUMonitor::updateAllGPUs: entry i is refreshed through the handle of
\* hardware index i; polled is the set of entries (1-based) updateGPUInfo
\* was called for
updateAllGPUs(gs, fs, n, plat, init, hwc) ==
    IF plat = "win32" /\ init
    THEN UpdateAllFrom(0, [gpus |-> gs, calls |-> <<>>, polled |-> {}],
                       fs, n, plat, init, hwc)
    ELSE [gpus |-> gs, calls |-> <<>>, polled |-> {}]

\* settings.target_power_limit * gpus[gpu_index].power_limit / 100
PowerLimitWatts(pct, watts) == (pct * watts) \div 100

applyGPUSettingsPowerGatesClocks(gpu_index, settings, gs, fs, plat, init, hwc) ==
    IF plat # "win32" THEN [ret |-> FALSE, calls |-> <<>>]
    ELSE IF ~init \/ gpu_index < 0 \/ gpu_index >= Len(gs)
    THEN [ret |-> FALSE, calls |-> <<>>]
    ELSE LET ok  == HandleOK(gpu_index, hwc, fs)
             h   == <<Call("handle", gpu_index, ok, NoArg)>>
             pw  == PowerLimitWatts(settings.target_power_limit,
                                    gs[gpu_index + 1].power_limit)
             pok == FaultPoint("set_power", gpu_index, "-") \notin fs
             p   == IF settings.target_power_limit > 0
                    THEN <<Call("set_power", gpu_index, pok,
                                <<pw * MilliPerUnit, pw * MilliPerUnit>>)>>
                    ELSE <<>>
             c   == IF settings.target_core_clock > 0 /\ pok
                    THEN <<Call("set_clocks", gpu_index,
                                FaultPoint("set_clocks", gpu_index, "-")
                                    \notin fs,
                                <<settings.target_memory_clock,
                                  settings.target_core_clock>>)>>
                    ELSE <<>>
         IN  IF ~ok THEN [ret |-> FALSE, calls |-> h]
             ELSE [ret |-> TRUE, calls |-> h \o p \o c]

\* GPUMonitor::applyGPUSettings: the value returned and the vendor calls
\* made; the results of the two setters are not looked at
applyGPUSettings(gpu_index, settings, gs, fs, plat, init, hwc) ==
    IF plat # "win32" THEN [ret |-> FALSE, calls |-> <<>>]
    ELSE IF ~init \/ gpu_index < 0 \/ gpu_index >= Len(gs)
    THEN [ret |-> FALSE, calls |-> <<>>]
    ELSE LET ok == HandleOK(gpu_index, hwc, fs)
             h  == <<Call("handle", gpu_index, ok, NoArg)>>
             pw == PowerLimitWatts(settings.target_power_limit,
                                   gs[gpu_index + 1].power_limit)
             p  == IF settings.target_power_limit > 0
                   THEN <<Call("set_power", gpu_index,
                               FaultPoint("set_power", gpu_index, "-")
                                   \notin fs,
                               <<pw * MilliPerUnit, pw * MilliPerUnit>>)>>
                   ELSE <<>>
             c  == IF settings.target_core_clock > 0
                   THEN <<Call("set_clocks", gpu_index,
                               FaultPoint("set_clocks", gpu_index, "-")
                                   \notin fs,
                               <<settings.target_memory_clock,
                                 settings.target_core_clock>>)>>
                   ELSE <<>>
         IN  IF ~ok THEN [ret |-> FALSE, calls |-> h]
             ELSE [ret |-> TRUE, calls |-> h \o p \o c]

(* --------------------------- GPUTuneApp -------------------------------- *)
VARIABLES
    platform,           \* which #ifdef branch the build took
    hwCount,            \* devices the platform has
    nvml_initialized,   \* GPUMonitor::nvml_initialized
    initFailed,         \* nvmlInit() was called and did not succeed
    gpus,               \* GPUMonitor::gpus
    selected_gpu,       \* GPUTuneApp::selected_gpu (0-based, as in the source)
    popup,              \* the modal popup that is open: "none", "Success", "Error"
    temp_history,       \* drawPerformanceGraphs: static temp_history
    gpu_util_history,   \* drawPerformanceGraphs: static gpu_util_history
    history_offset,     \* drawPerformanceGraphs: static history_offset
    pc,                 \* the step of the frame that runs next
    frame,              \* frames completed
    input,              \* what the operator does in this frame
    faults,             \* vendor calls that have failed so far
    calls,              \* the vendor calls the last step issued, in order
    access,             \* the index with which the last step read gpus[selected_gpu], or -1
    applyRet,           \* what applyGPUSettings returned in the last step: "none", "true", "false"
    pushed,             \* every value written to temp_history, in order
    hist_src,           \* per slot of temp_history: the hardware device of the entry pushed, or -1
    polls,              \* per registry entry: updateGPUInfo calls made for it by updateAllGPUs
    edits,              \* slider edits made so far
    stage_base          \* per registry entry: the sampled clocks shown when each target clock was last staged, or -1

vars == << platform, hwCount, nvml_initialized, initFailed, gpus,
           selected_gpu, popup, temp_history, gpu_util_history,
           history_offset, pc, frame, input, faults, calls, access,
           applyRet, pushed, hist_src, polls, edits, stage_base >>

envVars == << platform, hwCount, nvml_initialized, initFailed >>

histVars == << temp_history, gpu_util_history, history_offset, pushed,
               hist_src >>

\* the vendor calls that can fail while enumerating
DetectPoints(plat, init, hwc) ==
    IF plat = "win32" /\ init
    THEN {FaultPoint("count", -1, "-")}
         \cup {FaultPoint(k, h, "-") :
                  k \in {"handle", "name", "driver"}, h \in 0..(hwc - 1)}
         \cup {FaultPoint("read", h, f) : h \in 0..(hwc - 1), f \in ReadGroupSet}
    ELSE {}

\* the vendor calls that can fail while polling the entries of gs
UpdatePoints(gs, plat, init) ==
    IF plat = "win32" /\ init
    THEN {FaultPoint("handle", h, "-") : h \in 0..(Len(gs) - 1)}
         \cup {FaultPoint("read", h, f) :
                  h \in 0..(Len(gs) - 1), f \in ReadGroupSet}
    ELSE {}

\* the vendor calls that can fail while applying to entry i
ApplyPoints(i, plat, init) ==
    IF plat = "win32" /\ init
    THEN {FaultPoint(k, i, "-") : k \in {"handle", "set_power", "set_clocks"}}
    ELSE {}

\* what the unchecked buffers may hold, as far as fs makes them matter
GarbageFor(fs) ==
    { [name |-> a, version |-> b] :
        a \in (IF \E p \in fs : p.k = "name" THEN GarbageNames ELSE {""}),
        b \in (IF \E p \in fs : p.k = "driver" THEN GarbageVersions ELSE {""}) }

NoInput == [kind |-> "none", a |-> "", b |-> 0]

Sliders == {"core", "memory", "power", "fan1", "fan2", "fan3", "fan4", "fan5"}

\* where a drag leaves the slider grab, in percent of the slider's range
DragStops == {2, 86}

\* values typed into a slider after Ctrl+Click
TypedValues == {130}

\* what the operator can do in one frame while no modal popup is open
OperatorInputs ==
    {NoInput}
    \cup {[kind |-> "f5", a |-> "", b |-> 0]}
    \cup {[kind |-> "menu_refresh", a |-> "", b |-> 0]}
    \cup {[kind |-> "combo", a |-> "", b |-> k] : k \in 0..(MaxHw - 1)}
    \cup {[kind |-> "drag", a |-> w, b |-> t] : w \in Sliders, t \in DragStops}
    \cup {[kind |-> "type", a |-> w, b |-> v] : w \in Sliders, v \in TypedValues}
    \cup {[kind |-> "apply", a |-> "", b |-> 0]}
    \cup {[kind |-> "reset", a |-> "", b |-> 0]}

\* a modal popup takes the mouse; the F5 key is read with glfwGetKey
ModalInputs ==
    {NoInput, [kind |-> "f5", a |-> "", b |-> 0],
     [kind |-> "ok", a |-> "", b |-> 0]}

QuietInputs == {NoInput}

\* (float) of an int
ToFloat(x) ==
    IF -FloatExact <= x /\ x <= FloatExact THEN x ELSE (x \div 2) * 2

ZeroHistory == [k \in 1..HistorySize |-> 0]

\* neither target clock of the entry was set by a slider or by the reset
NeverStaged == [core |-> -1, memory |-> -1]

\* the state GPUMonitor() and GPUTuneApp() leave behind
InitWith(Budget) ==
    /\ platform \in Platforms
    /\ hwCount \in (CASE platform = "win32" -> 0..MaxHw
                      [] platform = "apple" -> 0..1
                      [] OTHER -> {0})
    /\ nvml_initialized \in (IF platform = "win32" THEN BOOLEAN ELSE {FALSE})
    /\ initFailed = (platform = "win32" /\ ~nvml_initialized)
    /\ \E fs \in UpTo(DetectPoints(platform, nvml_initialized, hwCount), Budget) :
         \E garb \in GarbageFor(fs) :
           \E d \in {detectGPUs(fs, garb, 0, platform, nvml_initialized,
                                hwCount)} :
               /\ gpus = d.gpus
               /\ calls = d.calls
               /\ faults = Cardinality(fs)
    /\ selected_gpu = 0
    /\ popup = "none"
    /\ temp_history = ZeroHistory
    /\ gpu_util_history = ZeroHistory
    /\ history_offset = 0
    /\ pc = "events"
    /\ frame = 0
    /\ input = NoInput
    /\ access = -1
    /\ applyRet = "none"
    /\ pushed = <<>>
    /\ hist_src = [k \in 1..HistorySize |-> -1]
    /\ polls = [k \in 1..Len(gpus) |-> 0]
    /\ edits = 0
    /\ stage_base = [k \in 1..Len(gpus) |-> NeverStaged]

Init == InitWith(MaxFaults)

\* what the operator can do in the frame that starts now: a widget that is
\* not drawn cannot be used
FrameInputs(quiet) ==
    IF quiet THEN QuietInputs
    ELSE { in \in (IF popup = "none" THEN OperatorInputs ELSE ModalInputs) :
             CASE in.kind = "combo" -> Len(gpus) > 1 /\ in.b < Len(gpus)
               [] in.kind \in {"drag", "type"} ->
                     gpus # <<>> /\ edits < MaxEdits
               [] in.kind \in {"apply", "reset", "ok"} -> gpus # <<>>
               [] OTHER -> TRUE }

Budget(quiet) == IF quiet THEN 0 ELSE MaxFaults - faults

\* a call of monitor.detectGPUs() from the application
Refresh(quiet) ==
    \E fs \in UpTo(DetectPoints(platform, nvml_initialized, hwCount),
                   Budget(quiet)) :
      \E garb \in GarbageFor(fs) :
        \E d \in {detectGPUs(fs, garb, frame, platform, nvml_initialized,
                             hwCount)} :
            /\ gpus' = d.gpus
            /\ calls' = d.calls
            /\ faults' = faults + Cardinality(fs)
            /\ polls' = [k \in 1..Len(d.gpus) |-> 0]
            /\ stage_base' = [k \in 1..Len(d.gpus) |-> NeverStaged]

\* run(): glfwPollEvents(), then the F5 shortcut
Events(quiet, maxF) ==
    /\ pc = "events"
    /\ frame < maxF
    /\ \E in \in FrameInputs(quiet) :
         /\ input' = in
         /\ IF in.kind = "f5"
            THEN Refresh(quiet)
            ELSE /\ calls' = <<>>
                 /\ UNCHANGED << gpus, faults, polls, stage_base >>
    /\ pc' = "update"
    /\ access' = -1
    /\ applyRet' = "none"
    /\ UNCHANGED << envVars, histVars, selected_gpu, popup, frame, edits >>

\* render(): the one-second timer and monitor.updateAllGPUs()
Update(quiet) ==
    /\ pc = "update"
    /\ \E due \in (IF quiet THEN {frame % PollEvery = 0} ELSE BOOLEAN) :
         IF due
         THEN \E fs \in UpTo(UpdatePoints(gpus, platform, nvml_initialized),
                             Budget(quiet)) :
                \E u \in {updateAllGPUs(gpus, fs, frame, platform,
                                         nvml_initialized, hwCount)} :
                    /\ gpus' = u.gpus
                    /\ calls' = u.calls
                    /\ faults' = faults + Cardinality(fs)
                    /\ polls' = [k \in 1..Len(gpus) |->
                                   IF k \in u.polled
                                   THEN polls[k] + 1 ELSE polls[k]]
         ELSE /\ calls' = <<>>
              /\ UNCHANGED << gpus, faults, polls >>
    /\ pc' = "menu"
    /\ access' = -1
    /\ applyRet' = "none"
    /\ UNCHANGED << envVars, histVars, selected_gpu, popup, frame, input,
                    edits, stage_base >>

\* render(): the "Refresh GPUs" menu item and the status indicators
MenuBar(quiet) ==
    /\ pc = "menu"
    /\ IF input.kind = "menu_refresh"
       THEN Refresh(quiet)
       ELSE /\ calls' = <<>>
            /\ UNCHANGED << gpus, faults, polls, stage_base >>
    /\ access' = IF gpus' # <<>> /\ selected_gpu < Len(gpus')
                 THEN selected_gpu ELSE -1
    /\ pc' = "monitoring"
    /\ applyRet' = "none"
    /\ UNCHANGED << envVars, histVars, selected_gpu, popup, frame, input,
                    edits >>

ClampSelectedOff(sel, size) == sel

\* if (selected_gpu >= gpus.size()) selected_gpu = 0;
ClampSelected(sel, size) == IF sel >= size THEN 0 ELSE sel

\* ImGui::Combo("##gpu_select", &selected_gpu, ...)
Combo(sel, size, in) ==
    IF in.kind = "combo" /\ in.b < size THEN in.b ELSE sel

\* GPUTuneApp::drawGPUMonitoring
DrawGPUMonitoring ==
    /\ pc = "monitoring"
    /\ IF gpus = <<>>
       THEN /\ access' = -1
            /\ UNCHANGED selected_gpu
       ELSE LET picked == IF Len(gpus) > 1
                          THEN Combo(selected_gpu, Len(gpus), input)
                          ELSE selected_gpu
            IN  /\ selected_gpu' = ClampSelected(picked, Len(gpus))
                /\ access' = selected_gpu'
    /\ pc' = "tuning"
    /\ calls' = <<>>
    /\ applyRet' = "none"
    /\ UNCHANGED << envVars, histVars, gpus, popup, frame, input, faults,
                    polls, edits, stage_base >>

FanSliders == <<"fan1", "fan2", "fan3", "fan4", "fan5">>

\* ImGui::SliderInt(label, &v, lo, hi) for the slider named which: a drag
\* leaves a value of the range, Ctrl+Click text input stores what was typed
SliderInt(v, lo, hi, in, which) ==
    IF in.a # which THEN v
    ELSE CASE in.kind = "drag" -> lo + ((hi - lo) * in.b) \div 100
           [] in.kind = "type" -> in.b
           [] OTHER -> v

\* the sliders of drawGPUTuning, applied to the selected entry
StageEdit(gpu, in) ==
    [gpu EXCEPT
       !.target_core_clock =
           SliderInt(@, gpu.core_clock - CoreClockSpan,
                     gpu.core_clock + CoreClockSpan, in, "core"),
       !.target_memory_clock =
           SliderInt(@, gpu.memory_clock - MemClockSpan,
                     gpu.memory_clock + MemClockSpan, in, "memory"),
       !.target_power_limit =
           SliderInt(@, PowerPctMin, PowerPctMax, in, "power"),
       !.target_fan_curve =
           [i \in 1..5 |-> SliderInt(@[i], 0, FanPctMax, in, FanSliders[i])]]

resetKeepsPowerLimit(gpu) ==
    [gpu EXCEPT
       !.target_core_clock = gpu.core_clock,
       !.target_memory_clock = gpu.memory_clock,
       !.target_fan_curve = [i \in 1..5 |-> 30 + ((i - 1) * 15)]]

\* the body of the "Reset to Default" button
resetToDefault(gpu) ==
    [gpu EXCEPT
       !.target_core_clock = gpu.core_clock,
       !.target_memory_clock = gpu.memory_clock,
       !.target_power_limit = 100,
       !.target_fan_curve = [i \in 1..5 |-> 30 + ((i - 1) * 15)]]

SelectedEntryShared(gs, sel, gpu) ==
    [k \in 1..Len(gs) |->
        IF k = sel + 1 THEN gpu
        ELSE [x \in DOMAIN gs[k] |->
                 IF x \in TargetFields THEN gpu[x] ELSE gs[k][x]]]

\* auto& gpu = gpus[selected_gpu]: what is written through gpu lands in
\* that entry
SelectedEntry(gs, sel, gpu) == [gs EXCEPT ![sel + 1] = gpu]

\* the sampled clocks the tuning page shows while a target clock is set
StagedAt(base, gpu, in) ==
    [core   |-> IF in.kind = "reset"
                   \/ (in.kind \in {"drag", "type"} /\ in.a = "core")
                THEN gpu.core_clock ELSE base.core,
     memory |-> IF in.kind = "reset"
                   \/ (in.kind \in {"drag", "type"} /\ in.a = "memory")
                THEN gpu.memory_clock ELSE base.memory]

\* GPUTuneApp::drawGPUTuning
DrawGPUTuning(quiet) ==
    /\ pc = "tuning"
    /\ IF gpus = <<>> \/ ClampSelected(selected_gpu, Len(gpus)) >= Len(gpus)
       THEN /\ access' = IF gpus = <<>> THEN -1 ELSE selected_gpu
            /\ applyRet' = "none"
            /\ calls' = <<>>
            /\ UNCHANGED << selected_gpu, gpus, popup, faults, edits,
                            stage_base >>
       ELSE \E sel \in {ClampSelected(selected_gpu, Len(gpus))} :
            \E staged \in {IF input.kind \in {"drag", "type"}
                           THEN StageEdit(gpus[sel + 1], input)
                           ELSE gpus[sel + 1]} :
            \E gs \in {SelectedEntry(gpus, sel, staged)} :
                /\ selected_gpu' = sel
                /\ access' = sel
                /\ edits' = IF input.kind \in {"drag", "type"}
                            THEN edits + 1 ELSE edits
                /\ stage_base' =
                       [stage_base EXCEPT ![sel + 1] =
                           StagedAt(@, gpus[sel + 1], input)]
                /\ IF input.kind = "apply"
                   THEN \E fs \in UpTo(ApplyPoints(sel, platform,
                                                   nvml_initialized),
                                       Budget(quiet)) :
                        \E r \in {applyGPUSettings(sel, staged, gs, fs,
                                      platform, nvml_initialized, hwCount)} :
                              /\ applyRet' = IF r.ret THEN "true" ELSE "false"
                              /\ popup' = IF r.ret THEN "Success" ELSE "Error"
                              /\ calls' = r.calls
                              /\ faults' = faults + Cardinality(fs)
                              /\ gpus' = gs
                   ELSE /\ applyRet' = "none"
                        /\ calls' = <<>>
                        /\ faults' = faults
                        /\ gpus' = IF input.kind = "reset"
                                   THEN SelectedEntry(gs, sel,
                                            resetToDefault(gs[sel + 1]))
                                   ELSE gs
                        /\ popup' = IF input.kind = "ok" THEN "none" ELSE popup
    /\ pc' = "graphs"
    /\ UNCHANGED << envVars, histVars, frame, input, polls >>

NextOffsetStuck(off) == off

\* history_offset = (history_offset + 1) % 100
NextOffset(off) == (off + 1) % HistorySize

\* temp_history[history_offset] = gpu.temperature
HistoryPush(buf, off, v) == [buf EXCEPT ![off + 1] = ToFloat(v)]

\* ImGui::PlotLines(label, values, count, values_offset, ...): the values
\* in the order they are drawn, values[(i + values_offset) % count]
PlotView(buf, off) ==
    [i \in 1..Len(buf) |-> buf[((i - 1 + off) % Len(buf)) + 1]]

\* GPUTuneApp::drawPerformanceGraphs
DrawPerformanceGraphs ==
    /\ pc = "graphs"
    /\ IF gpus # <<>> /\ selected_gpu < Len(gpus)
       THEN LET gpu == gpus[selected_gpu + 1]
            IN  /\ access' = selected_gpu
                /\ temp_history' =
                       HistoryPush(temp_history, history_offset,
                                   gpu.temperature)
                /\ gpu_util_history' =
                       HistoryPush(gpu_util_history, history_offset,
                                   gpu.gpu_utilization)
                /\ history_offset' = NextOffset(history_offset)
                /\ pushed' = Append(pushed, ToFloat(gpu.temperature))
                /\ hist_src' = [hist_src EXCEPT ![history_offset + 1] = gpu.hw]
       ELSE /\ access' = -1
            /\ UNCHANGED histVars
    /\ pc' = "sysinfo"
    /\ calls' = <<>>
    /\ applyRet' = "none"
    /\ UNCHANGED << envVars, gpus, selected_gpu, popup, frame, input, faults,
                    polls, edits, stage_base >>

\* GPUTuneApp::drawSystemInfo and the end of the frame
DrawSystemInfo ==
    /\ pc = "sysinfo"
    /\ pc' = "events"
    /\ frame' = frame + 1
    /\ input' = NoInput
    /\ access' = -1
    /\ calls' = <<>>
    /\ applyRet' = "none"
    /\ UNCHANGED << envVars, histVars, gpus, selected_gpu, popup, faults,
                    polls, edits, stage_base >>

Next ==
    \/ Events(FALSE, MaxFrames)
    \/ Update(FALSE)
    \/ MenuBar(FALSE)
    \/ DrawGPUMonitoring
    \/ DrawGPUTuning(FALSE)
    \/ DrawPerformanceGraphs
    \/ DrawSystemInfo

Spec == Init /\ [][Next]_vars

\* a long, quiet run: no operator input, no failing vendor call, the timer
\* elapsing every PollEvery-th frame
InitHist == InitWith(0)

NextHist ==
    \/ Events(TRUE, MaxHistFrames)
    \/ Update(TRUE)
    \/ MenuBar(TRUE)
    \/ DrawGPUMonitoring
    \/ DrawGPUTuning(TRUE)
    \/ DrawPerformanceGraphs
    \/ DrawSystemInfo

SpecHist == InitHist /\ [][NextHist]_vars

(* ------------------------------ claims --------------------------------- *)
\* the read of group f through the handle of hardware index h failed in cs
ReadFailedIn(cs, h, f) ==
    \E j \in 1..Len(cs) :
        cs[j].fn = "read" /\ cs[j].hw = h /\ cs[j].arg = f /\ ~cs[j].ok

\* nvmlDeviceGetHandleByIndex(h) failed in cs
HandleFailedIn(cs, h) ==
    \E j \in 1..Len(cs) : cs[j].fn = "handle" /\ cs[j].hw = h /\ ~cs[j].ok

\* the setter calls among cs
WritesIn(cs) ==
    {j \in 1..Len(cs) : cs[j].fn \in {"set_power", "set_clocks"}}

\* C1: a poll (updateAllGPUs) leaves every member whose read failed as it
\* was after the previous poll, and leaves all telemetry of an entry whose
\* handle could not be obtained as it was.
C1_FailedReadRetainsValue ==
    [][ pc = "update" =>
          \A i \in 1..Len(gpus) :
             /\ \A f \in ReadGroupSet :
                   ReadFailedIn(calls', i - 1, f) =>
                      \A x \in GroupFields(f) : gpus'[i][x] = gpus[i][x]
             /\ HandleFailedIn(calls', i - 1) =>
                   TelemetryOf(gpus'[i]) = TelemetryOf(gpus[i]) ]_vars

\* C1 witness: after a poll in a later frame the temperature read of an
\* entry failed and the entry still shows the temperature of frame 0.
C1_Witness ==
    /\ pc = "menu"
    /\ frame >= 1
    /\ \E i \in 1..Len(gpus) :
          /\ ReadFailedIn(calls, i - 1, "temperature")
          /\ gpus[i].temperature = HwRaw(i - 1, 0).temperature
          /\ gpus[i].temperature # HwRaw(i - 1, frame).temperature
          /\ gpus[i].core_clock = HwRaw(i - 1, frame).core_clock

\* C2: once more than HistorySize values were pushed, the plot shows
\* exactly the last HistorySize pushed values, oldest first.
C2_ViewIsLastPushed ==
    Len(pushed) > HistorySize =>
        PlotView(temp_history, history_offset) =
            SubSeq(pushed, Len(pushed) - HistorySize + 1, Len(pushed))

\* C2 witness: the buffer has wrapped and the wrapped view holds values of
\* different polls.
C2_Witness ==
    /\ pc = "sysinfo"
    /\ Len(pushed) > HistorySize + 1
    /\ history_offset = 2
    /\ temp_history[1] # temp_history[HistorySize]

\* round(w * pct / 100), halves rounded up
RoundedPowerWatts(pct, w) == (pct * w + 50) \div 100

\* C3: the power value apply writes is round(W * pct / 100) watts for
\* every staged pct in [50,120].
C3_PowerWriteRounded ==
    \A j \in WritesIn(calls) :
        (/\ calls[j].fn = "set_power"
         /\ gpus[access + 1].target_power_limit >= PowerPctMin
         /\ gpus[access + 1].target_power_limit <= PowerPctMax)
        => calls[j].arg[1] =
              RoundedPowerWatts(gpus[access + 1].target_power_limit,
                                gpus[access + 1].power_limit) * MilliPerUnit

\* C4: with the power-limit write successful and the clock write failed
\* apply reports neither success nor failure, and apply reports success
\* only if every write it attempted succeeded.
C4_OutcomeReflectsWrites ==
    /\ (\E j, k \in WritesIn(calls) :
           /\ calls[j].fn = "set_power" /\ calls[j].ok
           /\ calls[k].fn = "set_clocks" /\ ~calls[k].ok)
       => applyRet \notin {"true", "false"}
    /\ applyRet = "true" => \A j \in WritesIn(calls) : calls[j].ok

\* C5: a stage edit or a reset made while one device is selected leaves
\* the staged target of every other device unchanged.
C5_StageLeavesOtherTargets ==
    [][ (pc = "tuning" /\ input.kind \in {"drag", "type", "reset"}) =>
          /\ Len(gpus') = Len(gpus)
          /\ \A k \in 1..Len(gpus) :
                k # selected_gpu' + 1 =>
                   TargetOf(gpus'[k]) = TargetOf(gpus[k]) ]_vars

\* C5 witness: with two devices, after switching to the second one and
\* editing it, the second target has changed and the first has not.
C5_Witness ==
    /\ pc = "graphs"
    /\ input.kind \in {"drag", "type"}
    /\ Len(gpus) = 2
    /\ selected_gpu = 1
    /\ TargetOf(gpus[1]) = TargetOf(NewGPUInfo)
    /\ TargetOf(gpus[2]) # TargetOf(NewGPUInfo)

\* C6: "Reset to Default" leaves the selected device with power limit 100
\* percent and both target clocks equal to its sampled clocks, and issues
\* no vendor call.
C6_ResetRestoresDefaults ==
    [][ (pc = "tuning" /\ input.kind = "reset" /\ gpus # <<>>) =>
          /\ gpus'[selected_gpu' + 1].target_power_limit = 100
          /\ gpus'[selected_gpu' + 1].target_core_clock =
                gpus'[selected_gpu' + 1].core_clock
          /\ gpus'[selected_gpu' + 1].target_memory_clock =
                gpus'[selected_gpu' + 1].memory_clock
          /\ TelemetryOf(gpus'[selected_gpu' + 1]) =
                TelemetryOf(gpus[selected_gpu' + 1])
          /\ calls' = <<>> ]_vars

\* C6 witness: a reset after a slider edit, on a device that has sampled
\* clocks.
C6_Witness ==
    /\ pc = "graphs"
    /\ input.kind = "reset"
    /\ edits >= 1
    /\ gpus[selected_gpu + 1].core_clock > 0
    /\ gpus[selected_gpu + 1].target_core_clock =
          gpus[selected_gpu + 1].core_clock
    /\ gpus[selected_gpu + 1].target_power_limit = 100

\* C7: every value in the history shown while a device is selected was
\* sampled from that device.
C7_HistoryPerDevice ==
    (pc = "sysinfo" /\ access # -1) =>
        \A k \in 1..HistorySize :
            hist_src[k] # -1 => hist_src[k] = gpus[access + 1].hw

\* C8: after a failed nvmlInit the backend stays unavailable, the device
\* set stays empty, no step issues a vendor call, apply returns false and
\* the frame loop goes on; with zero devices the set is empty and no error
\* is shown.
C8_InitFailurePersistent ==
    /\ initFailed =>
          /\ ~nvml_initialized
          /\ gpus = <<>>
          /\ calls = <<>>
          /\ access = -1
          /\ \A i \in -1..MaxHw :
                applyGPUSettings(i, NewGPUInfo, gpus, {}, platform,
                                 nvml_initialized, hwCount)
                   = [ret |-> FALSE, calls |-> <<>>]
          /\ (frame < MaxFrames => ENABLED Next)
    /\ (platform = "win32" /\ hwCount = 0) =>
          gpus = <<>> /\ popup = "none"

\* C8 witness: nvmlInit failed on a machine with devices, and a frame with
\* an F5 refresh has passed its refresh and its poll step.
C8_Witness ==
    /\ initFailed
    /\ hwCount > 0
    /\ input.kind = "f5"
    /\ pc = "menu"

\* C9: on a build without write capability apply does not report a
\* failure (the Error popup with the run-as-administrator hint).
C9_UnsupportedIsNotFailure ==
    (platform # "win32" /\ applyRet # "none") => popup # "Error"

\* C10: every gpus[selected_gpu] access uses an index inside the device
\* vector, and nothing is accessed while the vector is empty.
C10_SelectionInRange ==
    /\ access # -1 => (0 <= access /\ access < Len(gpus))
    /\ \A j \in 1..Len(calls) :
          calls[j].fn \in {"set_power", "set_clocks"} =>
              (0 <= calls[j].hw /\ calls[j].hw < Len(gpus))
    /\ (0 <= selected_gpu /\ selected_gpu < Len(gpus))
          \/ pc \in {"events", "update", "menu", "monitoring"}
          \/ gpus = <<>>

\* C10 witness: right after a refresh that left fewer devices than the
\* selected index, the status indicators accessed nothing.
C10_Witness ==
    /\ pc = "monitoring"
    /\ gpus # <<>>
    /\ selected_gpu >= Len(gpus)
    /\ access = -1

\* the device vector was just built by detectGPUs and no later step has
\* touched it: after construction, after the F5 refresh, after the
\* "Refresh GPUs" menu item
JustEnumerated ==
    \/ pc = "events" /\ frame = 0
    \/ pc = "update" /\ input.kind = "f5"
    \/ pc = "monitoring" /\ input.kind = "menu_refresh"

\* C11: the staged target of a newly enumerated device is the one "Reset
\* to Default" produces from the same telemetry: target clocks equal to the
\* sampled clocks, power limit 100, fan curve 30/45/60/75/90.
C11_NewTargetIsResetTarget ==
    JustEnumerated =>
        \A i \in 1..Len(gpus) :
            /\ TargetOf(gpus[i]) = TargetOf(resetToDefault(gpus[i]))
            /\ gpus[i].target_core_clock = gpus[i].core_clock
            /\ gpus[i].target_memory_clock = gpus[i].memory_clock
            /\ gpus[i].target_power_limit = 100
            /\ gpus[i].target_fan_curve = <<30, 45, 60, 75, 90>>

\* C12: in every state the staged power limit of every device lies in
\* [50,120] and each of its five fan curve values lies in [0,100].
C12_TargetsInRange ==
    \A i \in 1..Len(gpus) :
        /\ PowerPctMin <= gpus[i].target_power_limit
        /\ gpus[i].target_power_limit <= PowerPctMax
        /\ \A k \in 1..5 :
              /\ 0 <= gpus[i].target_fan_curve[k]
              /\ gpus[i].target_fan_curve[k] <= FanPctMax

\* the call fn for hardware index h was made in cs and succeeded
SucceededIn(cs, fn, h) ==
    \E j \in 1..Len(cs) : cs[j].fn = fn /\ cs[j].hw = h /\ cs[j].ok

\* C13: after an enumeration through NVML the device vector holds exactly
\* the hardware devices whose handle and name reads both succeeded, in
\* hardware order; a device whose handle or name read failed is absent.
C13_EnumerationSkipsFailing ==
    (JustEnumerated /\ platform = "win32") =>
        /\ {gpus[i].hw : i \in 1..Len(gpus)} =
              {h \in 0..(hwCount - 1) :
                  SucceededIn(calls, "handle", h) /\ SucceededIn(calls, "name", h)}
        /\ \A i, k \in 1..Len(gpus) : i < k => gpus[i].hw < gpus[k].hw

\* C14: the clocks apply writes are the latest sampled clocks plus the
\* staged deltas (the staged target minus the sampled clock it was staged
\* against), however many polls lie between staging and apply.
C14_ApplyUsesLatestBaseline ==
    \A j \in WritesIn(calls) :
        calls[j].fn = "set_clocks" =>
            /\ stage_base[access + 1].core # -1 =>
                  calls[j].arg[2] =
                      gpus[access + 1].core_clock
                      + (gpus[access + 1].target_core_clock
                         - stage_base[access + 1].core)
            /\ stage_base[access + 1].memory # -1 =>
                  calls[j].arg[1] =
                      gpus[access + 1].memory_clock
                      + (gpus[access + 1].target_memory_clock
                         - stage_base[access + 1].memory)

\* the arguments of the clock writes among cs, in order
ClockWritesIn(cs) ==
    LET IsClockWrite(c) == c.fn = "set_clocks"
        w == SelectSeq(cs, IsClockWrite)
    IN  [j \in 1..Len(w) |-> w[j].arg]

\* C15: within one apply the power-limit write precedes the clock write,
\* a failed power-limit write is followed by the same clock write a
\* successful one would be followed by, and nothing is written after the
\* clock write (no second power-limit write rolls the first one back).
C15_PowerThenClocksNoRollback ==
    /\ \A j, k \in WritesIn(calls) :
          (calls[j].fn = "set_power" /\ calls[k].fn = "set_clocks") => j < k
    /\ Cardinality({j \in WritesIn(calls) : calls[j].fn = "set_power"}) <= 1
    /\ \A j \in WritesIn(calls) :
          calls[j].fn = "set_clocks" => j = Len(calls)
    /\ (\E j \in WritesIn(calls) : calls[j].fn = "set_power" /\ ~calls[j].ok)
          => ClockWritesIn(calls) =
                ClockWritesIn(applyGPUSettings(access, gpus[access + 1], gpus,
                                  {}, platform, nvml_initialized,
                                  hwCount).calls)

\* C15 witness: an apply whose power-limit write failed and whose clock
\* write was issued after it.
C15_Witness ==
    /\ pc = "graphs"
    /\ applyRet = "true"
    /\ \E j, k \in WritesIn(calls) :
          /\ calls[j].fn = "set_power" /\ ~calls[j].ok
          /\ calls[k].fn = "set_clocks" /\ j < k

\* C16: while fewer than HistorySize values have been pushed, the plot
\* drawn shows exactly the pushed values, oldest first from the first one:
\* its length is the number of pushes and no placeholder is in it.
C16_ViewBeforeFull ==
    (pc = "sysinfo" /\ access # -1 /\ Len(pushed) < HistorySize) =>
        /\ Len(PlotView(temp_history, history_offset)) = Len(pushed)
        /\ PlotView(temp_history, history_offset) = pushed

\* C17: the number of values pushed to the history of the displayed
\* device equals the number of polls taken of it (the sample read at
\* enumeration counted or not): a frame rendered without a poll pushes
\* nothing.
C17_OnePushPerPoll ==
    (pc = "sysinfo" /\ access # -1 /\ platform = "win32") =>
        Len(pushed) \in {polls[access + 1], polls[access + 1] + 1}

\* what a complete, successful read of hardware device h in frame n
\* leaves in the telemetry members of gpu
TelemetryFromHw(gpu, h, n) == TelemetryOf(UpdateFrom(gpu, h, {}, n, 1))

\* C18: every telemetry member a poll changes in entry i was read from
\* the hardware device entry i was enumerated from (whose name it holds),
\* and every write of an apply goes to the hardware device the selected
\* entry was enumerated from.
C18_EntryBoundToHardware ==
    [][ /\ pc = "update" =>
              \A i \in 1..Len(gpus) : \A x \in TelemetryFields :
                  gpus'[i][x] # gpus[i][x] =>
                      gpus'[i][x] =
                          TelemetryFromHw(gpus[i], gpus[i].hw, frame)[x]
        /\ pc = "tuning" =>
              \A j \in WritesIn(calls') :
                  calls'[j].hw = gpus'[access' + 1].hw ]_vars

\* C19: an apply that reached the device, with a memory clock target the
\* operator staged and that differs from the sampled memory clock, issues
\* a clock write carrying that target, whatever the core clock target is.
C19_StagedMemoryClockWritten ==
    (/\ pc = "graphs"
     /\ applyRet = "true"
     /\ stage_base[access + 1].memory # -1
     /\ gpus[access + 1].target_memory_clock # gpus[access + 1].memory_clock)
    => \E j \in WritesIn(calls) :
          /\ calls[j].fn = "set_clocks"
          /\ calls[j].arg[1] = gpus[access + 1].target_memory_clock
====
